---- MODULE Spec2Model ----
(***************************************************************************)
(* A model of src/app.py, the Netflix dashboard script.                    *)
(*                                                                         *)
(* The script is run top to bottom by Streamlit, and run again on every    *)
(* interaction.  One run is modelled as a chain of actions, one per        *)
(* section of the script: load_data() behind st.cache_data, the missing    *)
(* dates notice, the sidebar filters and df_filtered, the top countries,   *)
(* the genres, the movie minutes and the TV show seasons.                  *)
(*                                                                         *)
(* The sections that only draw (the pie of types, the trend, the ratings)  *)
(* assign nothing that a later section reads and are left out.             *)
(*                                                                         *)
(* Text is a tuple of one-character strings, so that str.replace,          *)
(* str.split, str.strip and int() are computed character by character.     *)
(* NaN (a missing cell) is the tuple <<"NaN">>, which is no text.          *)
(***************************************************************************)
EXTENDS Integers, Sequences, FiniteSets, TLC

VARIABLES
    source,          \* netflix_titles.csv: the rows of the file, cells as text
    cache,           \* st.cache_data's entry for load_data(), or None
    bodyRuns,        \* how many times the body of load_data has run
    calls,           \* how many times the script has called load_data()
    pc,              \* the section of the script that runs next
    df,              \* what load_data() returned in this run
    missing_dates,   \* df['date_added'].isna().sum()
    warned,          \* whether st.warning was called in this run
    year_filter,     \* the slider's (low, high)
    type_filter,     \* the selected content types
    country_filter,  \* the selected countries
    df_filtered,     \* the filtered frame
    top_countries,   \* value_counts().head(10) of the countries
    top_genres,      \* value_counts().head(15) of the genre tokens
    minutes,         \* movies['minutes']
    seasons,         \* tv_shows['seasons']
    raised           \* the exception that ended this run, "" when none did

vars == <<source, cache, bodyRuns, calls, pc, df, missing_dates, warned, year_filter,
          type_filter, country_filter, df_filtered, top_countries, top_genres,
          minutes, seasons, raised>>

\* value_counts().head(15) and .head(5) of the country widget, .head(10) of
\* the top countries and .head(15) of the genres.
CountryOptions == 15
TopCountriesN == 10
TopGenresN == 15

(***************************************************************************)
(* Values that are no data.                                                *)
(***************************************************************************)
None == <<"None">>
NaN == <<"NaN">>
NaT == -1

Unknown == <<"U", "n", "k", "n", "o", "w", "n">>
Movie == <<"M", "o", "v", "i", "e">>
TVShow == <<"T", "V", " ", "S", "h", "o", "w">>

(***************************************************************************)
(* Text.                                                                   *)
(***************************************************************************)
Digits == <<"0", "1", "2", "3", "4", "5", "6", "7", "8", "9">>

IsDigit(c) == \E d \in 1..10 : Digits[d] = c

DigitVal(c) == (CHOOSE d \in 1..10 : Digits[d] = c) - 1

IsSpace(c) == c \in {" ", "\t"}

StartsWith(s, pat) == Len(s) >= Len(pat) /\ SubSeq(s, 1, Len(pat)) = pat

RECURSIVE lstrip(_)
lstrip(s) == IF s # <<>> /\ IsSpace(s[1]) THEN lstrip(Tail(s)) ELSE s

RECURSIVE rstrip(_)
rstrip(s) ==
    IF s # <<>> /\ IsSpace(s[Len(s)]) THEN rstrip(SubSeq(s, 1, Len(s) - 1)) ELSE s

\* A bug to tell C9 by: the tokens are not trimmed.
str_strip_skipped(s) == s

\* str.strip(): whitespace off both ends; NaN stays NaN.
str_strip(s) == IF s = NaN THEN NaN ELSE rstrip(lstrip(s))

\* Python's str.replace(pat, rep), every occurrence, left to right.
RECURSIVE py_replace(_, _, _)
py_replace(s, pat, rep) ==
    IF Len(s) < Len(pat) THEN s
    ELSE IF StartsWith(s, pat)
         THEN rep \o py_replace(SubSeq(s, Len(pat) + 1, Len(s)), pat, rep)
         ELSE <<s[1]>> \o py_replace(Tail(s), pat, rep)

\* Series.str.replace(pat, rep, regex=False) on one element.
str_replace(s, pat, rep) == IF s = NaN THEN NaN ELSE py_replace(s, pat, rep)

\* Python's str.split(sep) for a one-character separator.
RECURSIVE py_split(_, _, _)
py_split(s, sep, cur) ==
    IF s = <<>> THEN <<cur>>
    ELSE IF s[1] = sep THEN <<cur>> \o py_split(Tail(s), sep, <<>>)
         ELSE py_split(Tail(s), sep, Append(cur, s[1]))

RECURSIVE DigitsValue(_, _)
DigitsValue(s, acc) ==
    IF s = <<>> THEN acc ELSE DigitsValue(Tail(s), 10 * acc + DigitVal(s[1]))

AllDigits(s) == s # <<>> /\ \A i \in 1..Len(s) : IsDigit(s[i])

\* Python's int(text): surrounding whitespace and one sign are accepted.
\* (Underscores between digits are too; no input here has them.)
py_int(s) ==
    LET t == rstrip(lstrip(s))
        signed == t # <<>> /\ t[1] \in {"+", "-"}
        body == IF signed THEN Tail(t) ELSE t
    IN  IF AllDigits(body)
        THEN [ok |-> TRUE,
              v |-> IF signed /\ t[1] = "-" THEN 0 - DigitsValue(body, 0)
                    ELSE DigitsValue(body, 0)]
        ELSE [ok |-> FALSE, v |-> 0]

(***************************************************************************)
(* The file and pd.read_csv.                                               *)
(***************************************************************************)
Columns == {"show_id", "type", "date_added", "country", "rating", "duration",
            "listed_in"}

Row(id, ty, date, country, rating, duration, listed) ==
    [show_id |-> id, type |-> ty, date_added |-> date, country |-> country,
     rating |-> rating, duration |-> duration, listed_in |-> listed]

\* pandas' default na_values: a cell holding one of these is read as NaN.
na_values ==
    {<<>>, <<"#", "N", "/", "A">>, <<"#", "N", "/", "A", " ", "N", "/", "A">>, <<"#", "N", "A">>, <<"-", "1", ".", "#", "I", "N", "D">>, <<"-", "1", ".", "#", "Q", "N", "A", "N">>,
     <<"-", "N", "a", "N">>, <<"-", "n", "a", "n">>, <<"1", ".", "#", "I", "N", "D">>, <<"1", ".", "#", "Q", "N", "A", "N">>, <<"<", "N", "A", ">">>, <<"N", "/", "A">>, <<"N", "A">>,
     <<"N", "U", "L", "L">>, <<"N", "a", "N">>, <<"N", "o", "n", "e">>, <<"n", "/", "a">>, <<"n", "a", "n">>, <<"n", "u", "l", "l">>}

read_cell(cell) == IF cell \in na_values THEN NaN ELSE cell

\* A column with rows and no value at all is read as float64, any other
\* column of text as object.
column_dtype(file, c) ==
    IF file # <<>> /\ \A i \in 1..Len(file) : read_cell(file[i][c]) = NaN
    THEN "float64" ELSE "object"

\* pd.read_csv("netflix_titles.csv")
read_csv(file) ==
    [rows |-> [i \in 1..Len(file) |-> [c \in Columns |-> read_cell(file[i][c])]],
     dtypes |-> [c \in Columns |-> column_dtype(file, c)]]

(***************************************************************************)
(* load_data: the steps of its body.                                       *)
(***************************************************************************)
\* df.drop_duplicates(): the first of each group of identical rows is kept.
RECURSIVE drop_duplicates(_)
drop_duplicates(rows) ==
    IF rows = <<>> THEN <<>>
    ELSE LET init == SubSeq(rows, 1, Len(rows) - 1)
             last == rows[Len(rows)]
         IN  IF \E i \in 1..Len(init) : init[i] = last
             THEN drop_duplicates(init)
             ELSE Append(drop_duplicates(init), last)

\* A Timestamp is counted in months: 12 * year + (month - 1).
Timestamp(y, m) == 12 * y + (m - 1)

\* pd.to_datetime(text, errors='coerce') on the date texts of this model,
\* which are written YYYY-MM: anything else (NaN, blanks, other text, a
\* month that does not exist) is coerced to NaT.
to_datetime(cell) ==
    IF cell = NaN \/ Len(cell) # 7 THEN NaT
    ELSE LET y == SubSeq(cell, 1, 4)
             m == SubSeq(cell, 6, 7)
         IN  IF AllDigits(y) /\ cell[5] = "-" /\ AllDigits(m)
                /\ DigitsValue(m, 0) \in 1..12
             THEN Timestamp(DigitsValue(y, 0), DigitsValue(m, 0))
             ELSE NaT

dt_year(ts) == ts \div 12

dt_month(ts) == (ts % 12) + 1

\* A bug to tell C5 by: the missing values are left missing.
fillna_skipped(v, value) == v

\* Series.fillna(value) on one element.
fillna(v, value) == IF v = NaN THEN value ELSE v

\* A bug to tell C6 by: the rows without a date are kept.
dropna_skipped(rows) == rows

\* df.dropna(subset=['date_added']) over rows whose date is a Timestamp or NaT.
dropna(rows) == SelectSeq(rows, LAMBDA r : r.date_added # NaT)

\* One row through lines 25 to 34, once its date is resolved.
clean_row(r) ==
    [show_id |-> r.show_id, type |-> r.type, date_added |-> r.date_added,
     year_added |-> dt_year(r.date_added),
     month_added |-> dt_month(r.date_added),
     country |-> fillna(r.country, Unknown),
     rating |-> fillna(r.rating, Unknown),
     duration |-> fillna(r.duration, Unknown),
     listed_in |-> r.listed_in]

with_date(r) == [r EXCEPT !.date_added = to_datetime(r.date_added)]

Map(f(_), s) == [i \in 1..Len(s) |-> f(s[i])]

\* The body of load_data on the file as it is now.
load_data_body(file) ==
    LET raw == read_csv(file)
        dedup == drop_duplicates(raw.rows)
        dated == dropna(Map(with_date, dedup))
    IN  [rows |-> Map(clean_row, dated),
         dtypes |-> [c \in Columns |->
                        IF c = "date_added" THEN "datetime64"
                        ELSE IF c \in {"country", "rating", "duration"}
                                /\ dated # <<>>
                        THEN "object" ELSE raw.dtypes[c]]]

(***************************************************************************)
(* st.cache_data: one entry for load_data(), which takes no argument.  The *)
(* key is the function, never the file it reads.  A hit hands out a copy   *)
(* of the stored frame.                                                    *)
(***************************************************************************)
\* A bug to tell C8 by: the cache is never hit.
cached_never(store) == FALSE

cached(store) == store # {}

\* load_data() as the script calls it, through the decorator.
load_data ==
    /\ pc = "load"
    /\ IF cached(cache)
       THEN UNCHANGED <<cache, bodyRuns>>
       ELSE /\ cache' = {load_data_body(source)}
            /\ bodyRuns' = bodyRuns + 1
    /\ calls' = calls + 1
    /\ df' = CHOOSE v \in cache' : TRUE
    /\ pc' = "missing_dates"
    /\ UNCHANGED <<source, missing_dates, warned, year_filter, type_filter,
                   country_filter, df_filtered, top_countries, top_genres,
                   minutes, seasons, raised>>

(***************************************************************************)
(* Missing dates info.                                                     *)
(***************************************************************************)
\* df['date_added'].isna().sum()
isna_sum(frame) ==
    Cardinality({i \in 1..Len(frame.rows) : frame.rows[i].date_added = NaT})

missing_dates_info ==
    /\ pc = "missing_dates"
    /\ missing_dates' = isna_sum(df)
    /\ warned' = (missing_dates' > 0)
    /\ pc' = "filters"
    /\ UNCHANGED <<source, cache, bodyRuns, calls, df, year_filter, type_filter,
                   country_filter, df_filtered, top_countries, top_genres,
                   minutes, seasons, raised>>

(***************************************************************************)
(* Series.value_counts() and head().                                       *)
(***************************************************************************)
Column(frame, c) == [i \in 1..Len(frame.rows) |-> frame.rows[i][c]]

Values(s) == {s[i] : i \in 1..Len(s)}

count_of(s, k) == Cardinality({i \in 1..Len(s) : s[i] = k})

MaxCount(s, keys) ==
    CHOOSE m \in {count_of(s, k) : k \in keys} :
        \A k \in keys : count_of(s, k) <= m

MinCount(s, keys) ==
    CHOOSE m \in {count_of(s, k) : k \in keys} :
        \A k \in keys : m <= count_of(s, k)

\* A bug to tell C10 by: the counts are sorted the other way.
RECURSIVE sort_values_ascending(_, _)
sort_values_ascending(s, keys) ==
    IF keys = {} THEN {<<>>}
    ELSE LET m == MinCount(s, keys)
         IN  UNION {{<<[key |-> k, count |-> m]>> \o rest :
                        rest \in sort_values_ascending(s, keys \ {k})} :
                    k \in {x \in keys : count_of(s, x) = m}}

\* sort_values(ascending=False) with the default kind, quicksort, which is
\* not a stable sort: the counts come out in non-increasing order, and the
\* order among equal counts is whatever the sort leaves.  Every such order
\* is an outcome.
RECURSIVE sort_values(_, _)
sort_values(s, keys) ==
    IF keys = {} THEN {<<>>}
    ELSE LET m == MaxCount(s, keys)
         IN  UNION {{<<[key |-> k, count |-> m]>> \o rest :
                        rest \in sort_values(s, keys \ {k})} :
                    k \in {x \in keys : count_of(s, x) = m}}

\* Series.value_counts(): NaN is not counted.
value_counts(s) == sort_values(s, Values(s) \ {NaN})

head(s, n) == SubSeq(s, 1, IF Len(s) < n THEN Len(s) ELSE n)

Keys(vc) == {vc[i].key : i \in 1..Len(vc)}

(***************************************************************************)
(* Sidebar filters and df_filtered.                                        *)
(***************************************************************************)
MinOf(S) == CHOOSE x \in S : \A y \in S : x <= y

MaxOf(S) == CHOOSE x \in S : \A y \in S : y <= x

\* A bug to tell C4 by: the ends of the range are left out.
between_exclusive(x, left, right) == left < x /\ x < right

\* Series.between(left, right, inclusive="both")
between(x, left, right) == left <= x /\ x <= right

\* Series.isin(values)
isin(x, values) == x \in values

\* The mask of lines 72 to 74 on one row.
keep_row(r, yf, tf, cf) ==
    /\ between(r.year_added, yf[1], yf[2])
    /\ isin(r.type, tf)
    /\ isin(r.country, cf)

apply_filter(frame, yf, tf, cf) ==
    [rows |-> SelectSeq(frame.rows, LAMBDA r : keep_row(r, yf, tf, cf)),
     dtypes |-> frame.dtypes]

\* The widgets offer what the frame holds: the years from the first to the
\* last, the types present, the 15 most frequent countries.  The choice is
\* the user's: any range and any selection, the defaults of a first run
\* among them.  On an empty frame min() is NaN and int(NaN) raises.
sidebar_filters ==
    /\ pc = "filters"
    /\ IF df.rows = <<>>
       THEN /\ pc' = "error"
            /\ raised' = "ValueError at line 54"
            /\ UNCHANGED <<year_filter, type_filter, country_filter, df_filtered>>
       ELSE LET years == Values(Column(df, "year_added"))
            IN  \E lo \in MinOf(years)..MaxOf(years) :
                \E hi \in lo..MaxOf(years) :
                \E tf \in SUBSET Values(Column(df, "type")) :
                \E vc \in value_counts(Column(df, "country")) :
                \E cf \in SUBSET Keys(head(vc, CountryOptions)) :
                    /\ year_filter' = <<lo, hi>>
                    /\ type_filter' = tf
                    /\ country_filter' = cf
                    /\ df_filtered' = apply_filter(df, <<lo, hi>>, tf, cf)
                    /\ pc' = "countries"
                    /\ raised' = ""
    /\ UNCHANGED <<source, cache, bodyRuns, calls, df, missing_dates, warned,
                   top_countries, top_genres, minutes, seasons>>

(***************************************************************************)
(* Top countries.                                                          *)
(***************************************************************************)
top_countries_tab ==
    /\ pc = "countries"
    /\ \E vc \in value_counts(Column(df_filtered, "country")) :
           top_countries' = head(vc, TopCountriesN)
    /\ pc' = "genres"
    /\ UNCHANGED <<source, cache, bodyRuns, calls, df, missing_dates, warned,
                   year_filter, type_filter, country_filter, df_filtered,
                   top_genres, minutes, seasons, raised>>

(***************************************************************************)
(* Genres.                                                                 *)
(***************************************************************************)
\* .str.split(',').explode() on one element: NaN gives one NaN.
split_explode(text) == IF text = NaN THEN <<NaN>> ELSE py_split(text, ",", <<>>)

RECURSIVE Flatten(_)
Flatten(ss) == IF ss = <<>> THEN <<>> ELSE ss[1] \o Flatten(Tail(ss))

\* df_filtered['listed_in'].str.split(',').explode().str.strip()
genres_of(frame) ==
    Map(str_strip, Flatten(Map(split_explode, Column(frame, "listed_in"))))

IsWordChar(c) ==
    c \in {"A", "B", "C", "D", "E", "F", "G", "H", "I", "J", "K", "L", "M",
           "N", "O", "P", "Q", "R", "S", "T", "U", "V", "W", "X", "Y", "Z",
           "a", "b", "c", "d", "e", "f", "g", "h", "i", "j", "k", "l", "m",
           "n", "o", "p", "q", "r", "s", "t", "u", "v", "w", "x", "y", "z"}

\* " ".join(genres.dropna()) holds a word for WordCloud.generate, which
\* raises ValueError on a text without one.
has_word(genres) ==
    \E i \in 1..Len(genres) :
        genres[i] # NaN /\ \E j \in 1..Len(genres[i]) : IsWordChar(genres[i][j])

\* The .str accessor raises AttributeError on a column that is not text.
genres_tab ==
    /\ pc = "genres"
    /\ IF df_filtered.dtypes["listed_in"] # "object"
       THEN /\ pc' = "error"
            /\ raised' = "AttributeError at line 169"
            /\ UNCHANGED top_genres
       ELSE /\ \E vc \in value_counts(genres_of(df_filtered)) :
                   top_genres' = head(vc, TopGenresN)
            /\ IF has_word(genres_of(df_filtered))
               THEN pc' = "movies" /\ raised' = ""
               ELSE pc' = "error" /\ raised' = "ValueError at line 187"
    /\ UNCHANGED <<source, cache, bodyRuns, calls, df, missing_dates, warned,
                   year_filter, type_filter, country_filter, df_filtered,
                   top_countries, minutes, seasons>>

(***************************************************************************)
(* Durations.                                                              *)
(***************************************************************************)
\* Series.replace(to_replace, value) on one element: the whole element is
\* compared.  The element becomes an object that is a str or an int.
series_replace(v, to_replace, value) ==
    IF v = to_replace THEN [obj |-> "int", val |-> value, text |-> <<>>]
    ELSE [obj |-> "str", val |-> 0, text |-> v]

\* int(element), as astype(int) does for each element of an object column.
astype_int(x) == IF x.obj = "int" THEN [ok |-> TRUE, v |-> x.val] ELSE py_int(x.text)

\* Series.astype(int): one element that is no integer raises ValueError for
\* the whole column.
series_astype_int(xs) ==
    IF \A i \in 1..Len(xs) : astype_int(xs[i]).ok
    THEN [raised |-> FALSE, values |-> [i \in 1..Len(xs) |-> astype_int(xs[i]).v]]
    ELSE [raised |-> TRUE, values |-> <<>>]

\* Lines 205 and 206 on one duration.
minutes_text(duration) ==
    series_replace(str_replace(duration, <<" ", "m", "i", "n">>, <<>>), Unknown, 0)

\* Lines 221 to 223 on one duration.
seasons_text(duration) ==
    series_replace(
        str_replace(str_replace(duration, <<" ", "S", "e", "a", "s", "o", "n">>, <<>>), <<"s">>, <<>>),
        Unknown, 0)

\* df_filtered[df_filtered['type'] == t].copy()
of_type(frame, t) == SelectSeq(frame.rows, LAMBDA r : r.type = t)

movies_minutes(frame) ==
    series_astype_int(Map(minutes_text, Column([rows |-> of_type(frame, Movie)], "duration")))

tv_seasons(frame) ==
    series_astype_int(Map(seasons_text, Column([rows |-> of_type(frame, TVShow)], "duration")))

movies_duration ==
    /\ pc = "movies"
    /\ minutes' = movies_minutes(df_filtered)
    /\ IF minutes'.raised
       THEN pc' = "error" /\ raised' = "ValueError at line 207"
       ELSE pc' = "tv_shows" /\ raised' = ""
    /\ UNCHANGED <<source, cache, bodyRuns, calls, df, missing_dates, warned,
                   year_filter, type_filter, country_filter, df_filtered,
                   top_countries, top_genres, seasons>>

tv_show_seasons ==
    /\ pc = "tv_shows"
    /\ seasons' = tv_seasons(df_filtered)
    /\ IF seasons'.raised
       THEN pc' = "error" /\ raised' = "ValueError at line 224"
       ELSE pc' = "done" /\ raised' = ""
    /\ UNCHANGED <<source, cache, bodyRuns, calls, df, missing_dates, warned,
                   year_filter, type_filter, country_filter, df_filtered,
                   top_countries, top_genres, minutes>>

(***************************************************************************)
(* The runs of the script, and the file.                                   *)
(***************************************************************************)
\* The runs of the script that are followed.
MaxCalls == 2

\* Streamlit runs the script again, in the same process, on an interaction
\* or a refresh: the script's names are new, the cache is kept.
rerun ==
    /\ pc \in {"done", "error"}
    /\ calls < MaxCalls
    /\ pc' = "load"
    /\ df' = None
    /\ missing_dates' = None
    /\ warned' = None
    /\ year_filter' = None
    /\ type_filter' = None
    /\ country_filter' = None
    /\ df_filtered' = None
    /\ top_countries' = None
    /\ top_genres' = None
    /\ minutes' = None
    /\ seasons' = None
    /\ raised' = ""
    /\ UNCHANGED <<source, cache, bodyRuns, calls>>

\* netflix_titles.csv is rewritten while the app is up.
source_change(files) ==
    /\ source' \in files \ {source}
    /\ UNCHANGED <<cache, bodyRuns, calls, pc, df, missing_dates, warned, year_filter,
                   type_filter, country_filter, df_filtered, top_countries,
                   top_genres, minutes, seasons, raised>>

\* The process starts: nothing is cached, the script is at its top.
Start(files) ==
    /\ source \in files
    /\ cache = {}
    /\ bodyRuns = 0
    /\ calls = 0
    /\ pc = "load"
    /\ df = None
    /\ missing_dates = None
    /\ warned = None
    /\ year_filter = None
    /\ type_filter = None
    /\ country_filter = None
    /\ df_filtered = None
    /\ top_countries = None
    /\ top_genres = None
    /\ minutes = None
    /\ seasons = None
    /\ raised = ""

Script ==
    \/ load_data
    \/ missing_dates_info
    \/ sidebar_filters
    \/ top_countries_tab
    \/ genres_tab
    \/ movies_duration
    \/ tv_show_seasons
    \/ rerun

(***************************************************************************)
(* Files.                                                                  *)
(***************************************************************************)
RECURSIVE FilesOf(_, _)
FilesOf(rows, n) ==
    IF n = 0 THEN {<<>>}
    ELSE FilesOf(rows, n - 1)
         \cup {Append(f, r) : f \in FilesOf(rows, n - 1), r \in rows}

\* Dates that resolve and dates that do not, cells that are empty or hold a
\* marker of na_values, and a row that differs from another in its id only.
MaxRowsNorm == 2

NormRows ==
    {Row(<<"n", "1">>, Movie, <<"2", "0", "1", "9", "-", "0", "9">>, <<>>, <<"P", "G">>, <<"9", "0", " ", "m", "i", "n">>, <<"C", "o", "m", "e", "d", "i", "e", "s", ",", " ", "D", "r", "a", "m", "a", "s">>),
     Row(<<"n", "2">>, Movie, <<"n", "o", "t", " ", "a", " ", "d", "a", "t", "e">>, <<"U", "S">>, <<"P", "G">>, <<"U", "n", "k", "n", "o", "w", "n">>, <<"D", "r", "a", "m", "a", "s">>),
     Row(<<"n", "3">>, TVShow, <<" ">>, <<"I", "n", "d", "i", "a">>, <<>>, <<"1", " ", "S", "e", "a", "s", "o", "n">>, <<"D", "r", "a", "m", "a", "s">>),
     Row(<<"n", "4">>, TVShow, <<>>, <<"U", "S">>, <<"N", "R">>, <<>>, <<"K", "i", "d", "s">>),
     Row(<<"n", "5">>, TVShow, <<"2", "0", "2", "0", "-", "1", "2">>, <<"N", "A">>, <<"N", "/", "A">>, <<>>, <<"K", "i", "d", "s">>),
     Row(<<"n", "6">>, Movie, <<"2", "0", "1", "9", "-", "1", "3">>, <<"U", "S">>, <<"P", "G">>, <<"9", "0", " ", "m", "i", "n">>, <<"D", "r", "a", "m", "a", "s">>),
     Row(<<"n", "7">>, Movie, <<"2", "0", "1", "9", "-", "0", "9">>, <<>>, <<"P", "G">>, <<"9", "0", " ", "m", "i", "n">>, <<"C", "o", "m", "e", "d", "i", "e", "s", ",", " ", "D", "r", "a", "m", "a", "s">>),
     Row(<<"n", "8">>, Movie, <<"N", "A">>, <<"U", "S">>, <<" ">>, <<"9", "0", " ", "m", "i", "n">>, <<>>)}

NormFiles == FilesOf(NormRows, MaxRowsNorm)

InitNorm == Start(NormFiles)

SpecNorm == InitNorm /\ [][Script]_vars

\* A small catalogue for the cache: the file as it was and as it may become.
MaxRowsCache == 2

CacheRows ==
    {Row(<<"c", "1">>, Movie, <<"2", "0", "1", "9", "-", "0", "9">>, <<"U", "S">>, <<"P", "G">>, <<"9", "0", " ", "m", "i", "n">>, <<"D", "r", "a", "m", "a", "s">>),
     Row(<<"c", "2">>, TVShow, <<"2", "0", "2", "0", "-", "0", "1">>, <<>>, <<"P", "G">>, <<"1", " ", "S", "e", "a", "s", "o", "n">>, <<"K", "i", "d", "s">>),
     Row(<<"c", "3">>, Movie, <<"n", "o", "t", " ", "a", " ", "d", "a", "t", "e">>, <<"U", "S">>, <<"P", "G">>, <<"9", "0", " ", "m", "i", "n">>, <<"D", "r", "a", "m", "a", "s">>)}

CacheFiles == FilesOf(CacheRows, MaxRowsCache)

InitCache == Start(CacheFiles)

\* One process, and a file that stays as it is.
Spec == InitCache /\ [][Script]_vars

Reload == Script \/ source_change(CacheFiles)

\* One process, and a file that is rewritten under it.
SpecReload == InitCache /\ [][Reload]_vars

\* Years, types and countries to filter on; f6 has no type, f3 no country.
MaxRowsFilter == 3

FilterRow(id, ty, date, country) ==
    Row(id, ty, date, country, <<"P", "G">>, <<>>, <<"D", "r", "a", "m", "a", "s">>)

FilterRows ==
    {FilterRow(<<"f", "1">>, Movie, <<"2", "0", "1", "9", "-", "0", "9">>, <<"U", "S">>),
     FilterRow(<<"f", "2">>, TVShow, <<"2", "0", "2", "0", "-", "0", "1">>, <<"I", "n", "d", "i", "a">>),
     FilterRow(<<"f", "3">>, Movie, <<"2", "0", "2", "1", "-", "0", "3">>, <<>>),
     FilterRow(<<"f", "4">>, TVShow, <<"2", "0", "1", "9", "-", "0", "5">>, <<"U", "S">>),
     FilterRow(<<"f", "5">>, Movie, <<"2", "0", "2", "0", "-", "0", "7">>, <<"I", "n", "d", "i", "a">>),
     FilterRow(<<"f", "6">>, <<>>, <<"2", "0", "2", "1", "-", "0", "1">>, <<"U", "S">>)}

FilterFiles == FilesOf(FilterRows, MaxRowsFilter)

InitFilter == Start(FilterFiles)

SpecFilter == InitFilter /\ [][Script]_vars

\* Countries: short files in every order, and one file of 11 countries, of
\* which head(10) leaves one out.
MaxRowsCountries == 3

CountryRow(id, country) ==
    Row(id, Movie, <<"2", "0", "1", "9", "-", "0", "9">>, country, <<"P", "G">>, <<"9", "0", " ", "m", "i", "n">>, <<"D", "r", "a", "m", "a", "s">>)

CountryRows ==
    {CountryRow(<<"u", "1">>, <<"U", "S">>),
     CountryRow(<<"u", "2">>, <<"U", "S">>),
     CountryRow(<<"i", "1">>, <<"I", "N">>),
     CountryRow(<<"k", "1">>, <<"U", "K">>)}

\* n rows of one country, the ids numbered.
Block(country, n) == [k \in 1..n |-> CountryRow(Append(country, Digits[k]), country)]

ManyCountries ==
    Block(<<"C", "A">>, 1) \o Block(<<"I", "T">>, 1) \o Block(<<"E", "S">>, 2) \o Block(<<"M", "X">>, 3)
    \o Block(<<"B", "R">>, 4) \o Block(<<"D", "E">>, 5) \o Block(<<"F", "R">>, 6) \o Block(<<"J", "P">>, 7)
    \o Block(<<"U", "K">>, 8) \o Block(<<"I", "N">>, 9) \o Block(<<"U", "S">>, 10)

CountryFiles == FilesOf(CountryRows, MaxRowsCountries) \cup {ManyCountries}

InitCountries == Start(CountryFiles)

SpecCountries == InitCountries /\ [][Script]_vars

\* Genres: one, several, padded with blanks, absent, blank; and one file of
\* 16 genres, of which head(15) leaves one out.
MaxRowsGenres == 2

GenreRow(id, listed) ==
    Row(id, Movie, <<"2", "0", "1", "9", "-", "0", "9">>, <<"U", "S">>, <<"P", "G">>, <<"9", "0", " ", "m", "i", "n">>, listed)

GenreRows ==
    {GenreRow(<<"g", "1">>, <<"D", "r", "a", "m", "a", "s">>),
     GenreRow(<<"g", "2">>, <<"C", "o", "m", "e", "d", "i", "e", "s", ",", " ", "D", "r", "a", "m", "a", "s">>),
     GenreRow(<<"g", "3">>, <<" ", "D", "r", "a", "m", "a", "s", " ", ",", "K", "i", "d", "s", ",", " ", " ", "C", "o", "m", "e", "d", "i", "e", "s">>),
     GenreRow(<<"g", "4">>, <<>>),
     GenreRow(<<"g", "5">>, <<" ">>),
     GenreRow(<<"g", "6">>, <<"K", "i", "d", "s", ",">>)}

GenreNames ==
    <<<<"A", "c", "t">>, <<"A", "n", "i">>, <<"C", "l", "a">>, <<"C", "o", "m">>, <<"C", "r", "i">>, <<"C", "u", "l">>, <<"D", "r", "a">>, <<"F", "a", "i">>,
      <<"H", "o", "r">>, <<"I", "n", "d">>, <<"K", "i", "d">>, <<"M", "u", "s">>, <<"R", "e", "a">>, <<"R", "o", "m">>, <<"S", "c", "i">>, <<"S", "p", "o">>>>

\* "name, name, ..." of the genres from the j-th on.
RECURSIVE GenresFrom(_)
GenresFrom(j) ==
    IF j = Len(GenreNames) THEN GenreNames[j]
    ELSE GenreNames[j] \o <<",", " ">> \o GenresFrom(j + 1)

\* Row j lists the genres from the j-th on: the i-th genre is listed i
\* times, the last two 15 times each; the last row lists none.
ManyGenres ==
    [j \in 1..15 |-> GenreRow(<<"G">> \o GenreNames[j], GenresFrom(j))]
    \o <<GenreRow(<<"G", "0">>, <<>>)>>

GenreFiles == FilesOf(GenreRows, MaxRowsGenres) \cup {ManyGenres}

InitGenres == Start(GenreFiles)

SpecGenres == InitGenres /\ [][Script]_vars

\* Durations, well formed and not; everything else is the same in each row.
MaxRowsDur == 2

DurRow(id, ty, duration) ==
    Row(id, ty, <<"2", "0", "1", "9", "-", "0", "9">>, <<"U", "S">>, <<"P", "G">>, duration, <<"D", "r", "a", "m", "a", "s">>)

DurRows ==
    {DurRow(<<"m", "1">>, Movie, <<"9", "0", " ", "m", "i", "n">>),
     DurRow(<<"m", "2">>, Movie, <<>>),
     DurRow(<<"m", "3">>, Movie, <<"U", "n", "k", "n", "o", "w", "n">>),
     DurRow(<<"m", "4">>, Movie, <<"9", "0", " ", "m", "i", "n", "s">>),
     DurRow(<<"m", "5">>, Movie, <<"9", "0", " ", "m", "i", "n", " ", "m", "i", "n">>),
     DurRow(<<"m", "6">>, Movie, <<"1", " ", "S", "e", "a", "s", "o", "n">>),
     DurRow(<<"t", "1">>, TVShow, <<"1", " ", "S", "e", "a", "s", "o", "n">>),
     DurRow(<<"t", "2">>, TVShow, <<"3", " ", "S", "e", "a", "s", "o", "n", "s">>),
     DurRow(<<"t", "3">>, TVShow, <<>>),
     DurRow(<<"t", "4">>, TVShow, <<"U", "n", "k", "n", "o", "w", "n", "s">>),
     DurRow(<<"t", "5">>, TVShow, <<"3", " ", "S", "e", "a", "s", "o", "n", "s", "s", "s">>),
     DurRow(<<"t", "6">>, TVShow, <<"9", "0", " ", "m", "i", "n">>)}

DurFiles == FilesOf(DurRows, MaxRowsDur)

InitDur == Start(DurFiles)

SpecDur == InitDur /\ [][Script]_vars

(***************************************************************************)
(* The claims.                                                             *)
(***************************************************************************)
\* The run has passed the movie minutes, and the TV show seasons.
MinutesComputed ==
    \/ pc \in {"tv_shows", "done"}
    \/ pc = "error" /\ raised \in {"ValueError at line 207", "ValueError at line 224"}

SeasonsComputed ==
    \/ pc = "done"
    \/ pc = "error" /\ raised = "ValueError at line 224"

\* The text d is a run of digits followed by exactly the suffix.
HasUnit(d, suffix) ==
    /\ Len(d) > Len(suffix)
    /\ SubSeq(d, Len(d) - Len(suffix) + 1, Len(d)) = suffix
    /\ AllDigits(SubSeq(d, 1, Len(d) - Len(suffix)))

NumberBefore(d, suffix) == DigitsValue(SubSeq(d, 1, Len(d) - Len(suffix)), 0)

MovieDurations == Column([rows |-> of_type(df_filtered, Movie)], "duration")

TVShowDurations == Column([rows |-> of_type(df_filtered, TVShow)], "duration")

MinutesWellFormed(d) == d = Unknown \/ HasUnit(d, <<" ", "m", "i", "n">>)

MinutesMeant(d) == IF d = Unknown THEN 0 ELSE NumberBefore(d, <<" ", "m", "i", "n">>)

SeasonsWellFormed(d) ==
    d = Unknown \/ HasUnit(d, <<" ", "S", "e", "a", "s", "o", "n">>) \/ HasUnit(d, <<" ", "S", "e", "a", "s", "o", "n", "s">>)

SeasonsMeant(d) ==
    IF d = Unknown THEN 0
    ELSE IF HasUnit(d, <<" ", "S", "e", "a", "s", "o", "n">>) THEN NumberBefore(d, <<" ", "S", "e", "a", "s", "o", "n">>)
    ELSE NumberBefore(d, <<" ", "S", "e", "a", "s", "o", "n", "s">>)

\* C2: of the movies' durations, "Unknown" gives 0 minutes and "<N> min"
\* gives N; any other duration makes the computation raise, and no integer
\* comes out of it.
C2_MinutesOrError ==
    MinutesComputed =>
        IF \A i \in 1..Len(MovieDurations) : MinutesWellFormed(MovieDurations[i])
        THEN /\ ~minutes.raised
             /\ minutes.values = Map(MinutesMeant, MovieDurations)
        ELSE minutes.raised

\* C3: of the TV shows' durations, "Unknown" gives 0 seasons, "<N> Season"
\* and "<N> Seasons" give N; any other duration makes the computation raise
\* and is never turned into 0 or another integer.
C3_SeasonsOrError ==
    SeasonsComputed =>
        IF \A i \in 1..Len(TVShowDurations) : SeasonsWellFormed(TVShowDurations[i])
        THEN /\ ~seasons.raised
             /\ seasons.values = Map(SeasonsMeant, TVShowDurations)
        ELSE seasons.raised

Loaded == pc # "load"

InfoDone == pc \notin {"load", "missing_dates"}

\* The row of the file that a row of the frame came from.
RawOf(r) == CHOOSE s \in Values(source) : s.show_id = r.show_id

Deduplicated == drop_duplicates(read_csv(source).rows)

\* C1: the count of dropped rows that normalization reports, which the
\* warning is made of, is the number of deduplicated rows left out of the
\* clean frame; it is above 0, and the warning given, when a row was left out.
C1_DroppedCountReported ==
    InfoDone =>
        /\ Len(df.rows) + missing_dates = Len(Deduplicated)
        /\ Len(df.rows) < Len(Deduplicated) => warned

Categoricals == {"country", "rating", "duration"}

\* C5 as stated: country, rating and duration are never absent in the clean
\* frame; an empty cell becomes "Unknown" and every cell that is not empty
\* is left as it is.
C5_UnknownForEmptyOnly ==
    Loaded =>
        \A i \in 1..Len(df.rows) : \A c \in Categoricals :
            LET cell == RawOf(df.rows[i])[c]
            IN  /\ df.rows[i][c] # NaN
                /\ df.rows[i][c] = IF cell = <<>> THEN Unknown ELSE cell

\* C5 as amended: country, rating and duration are never absent in the
\* clean frame; a cell that is empty or holds one of the reader's markers of
\* a missing value (NA, N/A, null, ...) becomes "Unknown" and every other
\* cell is left as it is.
C5_UnknownForMissing ==
    Loaded =>
        \A i \in 1..Len(df.rows) : \A c \in Categoricals :
            LET cell == RawOf(df.rows[i])[c]
            IN  /\ df.rows[i][c] # NaN
                /\ df.rows[i][c] = IF cell \in na_values THEN Unknown ELSE cell

\* A clean row from an empty cell, one from a marker, and text left alone.
C5_Witness ==
    /\ Loaded
    /\ \E i \in 1..Len(df.rows) :
           RawOf(df.rows[i]).duration = <<>> /\ df.rows[i].duration = Unknown
    /\ \E i \in 1..Len(df.rows) :
           RawOf(df.rows[i]).country = <<"N", "A">> /\ df.rows[i].country = Unknown
    /\ \E i \in 1..Len(df.rows) :
           RawOf(df.rows[i]).rating = <<"P", "G">> /\ df.rows[i].rating = <<"P", "G">>

\* The date text resolves: it is written YYYY-MM with a month of the year.
Resolves(text) ==
    /\ Len(text) = 7
    /\ AllDigits(SubSeq(text, 1, 4))
    /\ text[5] = "-"
    /\ AllDigits(SubSeq(text, 6, 7))
    /\ DigitsValue(SubSeq(text, 6, 7), 0) \in 1..12

\* C6: every row of the clean frame has a resolved date, and its year_added
\* and month_added are the year and the month of that date; a row of the
\* file whose date is absent, empty, blank or unparseable is in no clean
\* frame, and the load returns all the same.
C6_EveryCleanRowDated ==
    Loaded =>
        /\ \A i \in 1..Len(df.rows) :
               LET r == df.rows[i]
                   text == RawOf(r).date_added
               IN  /\ r.date_added # NaT
                   /\ Resolves(text)
                   /\ r.year_added = DigitsValue(SubSeq(text, 1, 4), 0)
                   /\ r.month_added = DigitsValue(SubSeq(text, 6, 7), 0)
        /\ \A s \in Values(source) :
               ~Resolves(s.date_added) =>
                   \A i \in 1..Len(df.rows) : df.rows[i].show_id # s.show_id

\* A load that kept a December row and left a blank date out.
C6_Witness ==
    /\ Loaded
    /\ \E i \in 1..Len(df.rows) : df.rows[i].month_added = 12
    /\ \E s \in Values(source) : s.date_added = <<" ">>

\* C7: a load after the file has changed returns the clean frame of the file
\* as it is now, never that of the file as it was.
C7_LoadReturnsCurrentFile == [][load_data => df' = load_data_body(source)]_vars

\* C8: while the file stays as it is, the body of load_data runs at most
\* once, every call returns the same clean frame, that of the file, and no
\* section of the script changes what is cached.
C8_LoadedOnce ==
    /\ bodyRuns <= 1
    /\ cached(cache) => cache = {load_data_body(source)}
    /\ Loaded => df \in cache

\* A second call has returned rows, and the body has run once.
C8_Witness == calls = 2 /\ pc = "missing_dates" /\ bodyRuns = 1 /\ df.rows # <<>>

\* The run has passed the filters, the top countries, the genres' counts.
Filtered == pc \notin {"load", "missing_dates", "filters"} /\ raised # "ValueError at line 54"

CountriesCounted ==
    Filtered /\ pc # "countries"

GenresCounted ==
    /\ CountriesCounted
    /\ pc # "genres"
    /\ raised # "AttributeError at line 169"

PositionIn(rows, r) == CHOOSE k \in 1..Len(rows) : rows[k] = r

\* The filter's condition on a clean row, in the claim's words.
Selected(r) ==
    /\ r.year_added >= year_filter[1]
    /\ r.year_added <= year_filter[2]
    /\ r.type \in type_filter
    /\ r.country \in country_filter

\* C4: a clean row is kept if and only if its year_added is within the year
\* range, both ends included, its type is one of the selected types and its
\* country one of the selected countries; with no type or no country
\* selected nothing is kept; the kept rows are in their original order.
C4_FilterKeepsExactly ==
    Filtered =>
        LET kept == df_filtered.rows
        IN  /\ \A i \in 1..Len(df.rows) :
                   Selected(df.rows[i]) <=> \E j \in 1..Len(kept) : kept[j] = df.rows[i]
            /\ \A j \in 1..Len(kept) : \E i \in 1..Len(df.rows) : df.rows[i] = kept[j]
            /\ \A j, k \in 1..Len(kept) :
                   j < k => PositionIn(df.rows, kept[j]) < PositionIn(df.rows, kept[k])
            /\ (type_filter = {} \/ country_filter = {}) => kept = <<>>

\* A row whose year is the upper end of the range is kept, ahead of another
\* kept row, and a row is left out.
C4_Witness ==
    /\ Filtered
    /\ Len(df_filtered.rows) = 2
    /\ Len(df.rows) = 3
    /\ year_filter[1] < year_filter[2]
    /\ \E j \in 1..2 : df_filtered.rows[j].year_added = year_filter[2]
    /\ \E j \in 1..2 : df_filtered.rows[j].year_added = year_filter[1]

RECURSIVE SumCounts(_)
SumCounts(vc) == IF vc = <<>> THEN 0 ELSE vc[1].count + SumCounts(Tail(vc))

NonIncreasing(vc) == \A i \in 1..Len(vc) - 1 : vc[i].count >= vc[i + 1].count

DistinctKeys(vc) == \A i, j \in 1..Len(vc) : i # j => vc[i].key # vc[j].key

\* The places of the commas of a text, and its two ends.
Cuts(text) == {0, Len(text) + 1} \cup {i \in 1..Len(text) : text[i] = ","}

NextCut(text, a) == CHOOSE b \in Cuts(text) : b > a /\ \A c \in Cuts(text) : c > a => b <= c

\* The token that starts after the cut a, without the blanks around it.
TokenAfter(text, a) ==
    LET inside == {i \in (a + 1)..(NextCut(text, a) - 1) : ~IsSpace(text[i])}
    IN  IF inside = {} THEN <<>> ELSE SubSeq(text, MinOf(inside), MaxOf(inside))

\* The tokens of the filtered rows, each as <<row, cut>>; a row without
\* genre text has none.
TokenPlaces ==
    UNION {{<<i, a>> : a \in Cuts(df_filtered.rows[i].listed_in) \ {Len(df_filtered.rows[i].listed_in) + 1}} :
              i \in {k \in 1..Len(df_filtered.rows) : df_filtered.rows[k].listed_in # NaN}}

TokenAt(p) == TokenAfter(df_filtered.rows[p[1]].listed_in, p[2])

\* C9: the count of a genre in top_genres is the number of (row, token)
\* occurrences of that token, trimmed, in the comma-separated genre texts of
\* the filtered rows, a row without genre text adding nothing; there are at
\* most 15 entries, in non-increasing order of count, and their counts add
\* up to no more than the number of tokens.  (This is about a run whose
\* genre section returns; it raises when no row of the file has genre text.)
C9_GenreCounts ==
    GenresCounted =>
        /\ Len(top_genres) <= TopGenresN
        /\ \A i \in 1..Len(top_genres) :
               top_genres[i].count
                   = Cardinality({p \in TokenPlaces : TokenAt(p) = top_genres[i].key})
        /\ DistinctKeys(top_genres)
        /\ NonIncreasing(top_genres)
        /\ SumCounts(top_genres) <= Cardinality(TokenPlaces)

\* 15 genres are returned and one is left out, from rows of several padded
\* genres and a row with no genre text.
C9_Witness ==
    /\ GenresCounted
    /\ Len(top_genres) = TopGenresN
    /\ SumCounts(top_genres) < Cardinality(TokenPlaces)
    /\ \E i \in 1..Len(df_filtered.rows) : df_filtered.rows[i].listed_in = NaN
    /\ \E i \in 1..Len(top_genres) : top_genres[i].count = 15

FilteredCountries == Column(df_filtered, "country")

FirstSeen(s, k) == MinOf({i \in 1..Len(s) : s[i] = k})

\* The keys by count, the larger first, and among equal counts the one met
\* first in s first.
RECURSIVE FirstSeenOrder(_, _)
FirstSeenOrder(s, keys) ==
    IF keys = {} THEN <<>>
    ELSE LET k == CHOOSE x \in keys : \A y \in keys \ {x} :
                      \/ count_of(s, x) > count_of(s, y)
                      \/ count_of(s, x) = count_of(s, y) /\ FirstSeen(s, x) < FirstSeen(s, y)
         IN  <<[key |-> k, count |-> count_of(s, k)]>> \o FirstSeenOrder(s, keys \ {k})

====
